---- MODULE Spec2Model ----
(***************************************************************************)
(* Gear Hover Reveal (src/app.js): connected-component labelling of the    *)
(* grey image, the item mappings built from the catalog's sample points,   *)
(* the hit test, the compositor (redraw) and the pointer / click handlers. *)
(*                                                                         *)
(* A pixel is <<r, g, b, a>>, channels 0..255 (one RGBA group of the       *)
(* Uint8ClampedArray of an ImageData).  An image buffer is a function      *)
(* from the pixel index p = y * W + x (0-based, as in the source) to its   *)
(* pixel, so data[4p], data[4p+1], data[4p+2], data[4p+3] of the source    *)
(* are buf[p][1] .. buf[p][4].                                             *)
(***************************************************************************)
EXTENDS Integers, Sequences, FiniteSets, TLC

VARIABLES
    pc,              \* position of init(): "mustFetchGrey", "mustFetchColor",
                     \* "loadImage", "ready", "failed" (and "input" / "built"
                     \* for the function-level specifications)
    greyLoad,        \* loadImage(GREY_SRC):  "idle" | "pending" | "loaded" | "error"
    colorLoad,       \* loadImage(COLOR_SRC): "idle" | "pending" | "loaded" | "error"
    greyImg,         \* <<naturalWidth, naturalHeight>> of the decoded grey image
    colorImg,        \* <<naturalWidth, naturalHeight>> of the decoded colour image
    alerts,          \* number of alert() calls made by init's catch block
    ITEMS,           \* the item catalog
    W, H,            \* image dimensions
    greyData,        \* base (grey) pixel buffer
    colorData,       \* overlay (colour) pixel buffer
    compIdAt,        \* label array, 0 = background
    compCount,       \* number of labels allocated
    compToItemKey,   \* Map componentId -> itemKey
    itemKeyToInfo,   \* Map itemKey -> [title, message]
    itemKeyToComps,  \* Map itemKey -> Set(componentIds)
    hoverItemKey,    \* active selection, Null when none
    cursor,          \* canvas.style.cursor
    canvasData,      \* what the visible canvas shows
    modalHidden,     \* modal.classList contains "hidden"
    modalTitle,      \* modalTitle.textContent
    modalBody,       \* modalBody.textContent
    rect,            \* canvas.getBoundingClientRect()
    evt,             \* the last event handled: [type, cx, cy, from], where
                     \* from is hoverItemKey as the handler found it
    fgCalls,         \* the calls of isForeground made by buildComponentMap, in
                     \* order: <<"scan" | "fill", p>>
    ret              \* the value returned by the last call of the function a
                     \* function-level specification applies

vars == <<pc, greyLoad, colorLoad, alerts, ITEMS, W, H, greyData, colorData,
          compIdAt, compCount, compToItemKey, itemKeyToInfo, itemKeyToComps,
          hoverItemKey, cursor, canvasData, modalHidden, modalTitle, modalBody,
          rect, evt, greyImg, colorImg, fgCalls, ret>>

(***************************************************************************)
(* Bounds of the model.                                                    *)
(***************************************************************************)
\* largest image of the function-level specifications (SpecBuild)
MaxW == 3
MaxH == 3
\* largest number of pixels of an image of the interactive specification (Spec)
MaxScenePixels == 4

\* JavaScript null (the keys of the catalog are non-empty strings)
Null == "null"

\* an empty Map / a buffer that is still null
EmptyMap == <<>>

(***************************************************************************)
(* Pixels and buffers the decoder can hand over.                           *)
(***************************************************************************)
White == <<255, 255, 255, 255>>
Black == <<0, 0, 0, 255>>
GreyPixels == {White, Black}

Pixels(w, h) == 0 .. (w * h - 1)

GreyBuffers(w, h) == [Pixels(w, h) -> GreyPixels]

\* the colour image: every pixel differs from every other one and from the
\* grey palette, and some are not opaque
ColorBuffer(w, h) ==
    [p \in Pixels(w, h) |->
        <<200 - p, 10 + p, 100 + 2 * p, IF p % 2 = 0 THEN 255 ELSE 128>>]

(***************************************************************************)
(* isForeground                                                            *)
(***************************************************************************)
Threshold == 245

\* faulty variant: a mean equal to the threshold counts as foreground
isForegroundAtThreshold(r, g, b) ==
    IF r > Threshold /\ g > Threshold /\ b > Threshold
    THEN FALSE
    ELSE r + g + b <= 3 * Threshold

\* brightness = (r + g + b) / 3 < 245, stated without the division
isForeground(r, g, b) ==
    IF r > Threshold /\ g > Threshold /\ b > Threshold
    THEN FALSE
    ELSE r + g + b < 3 * Threshold

(***************************************************************************)
(* buildComponentMap                                                       *)
(***************************************************************************)
idx(x, y, w) == y * w + x

\* faulty variant: the eight neighbours, diagonals included
nbsOfWithDiagonals(qx, qy) ==
    << <<qx - 1, qy>>, <<qx + 1, qy>>, <<qx, qy - 1>>, <<qx, qy + 1>>,
       <<qx - 1, qy - 1>>, <<qx + 1, qy - 1>>, <<qx - 1, qy + 1>>, <<qx + 1, qy + 1>> >>

\* the four neighbours of (qx, qy) in the order of the source
nbsOf(qx, qy) == << <<qx - 1, qy>>, <<qx + 1, qy>>, <<qx, qy - 1>>, <<qx, qy + 1>> >>

\* faulty variant: the neighbour loop without the foreground test
RECURSIVE VisitNbsUnclassified(_, _, _, _, _, _)
VisitNbsUnclassified(data, w, h, currentId, nbs, st) ==
    IF nbs = <<>> THEN st
    ELSE
        LET nx == Head(nbs)[1]
            ny == Head(nbs)[2]
            np == idx(nx, ny, w)
            rest == Tail(nbs)
        IN  IF nx < 0 \/ nx >= w \/ ny < 0 \/ ny >= h
            THEN VisitNbsUnclassified(data, w, h, currentId, rest, st)
            ELSE IF st.comp[np] # 0
            THEN VisitNbsUnclassified(data, w, h, currentId, rest, st)
            ELSE VisitNbsUnclassified(data, w, h, currentId, rest,
                          [comp |-> [st.comp EXCEPT ![np] = currentId],
                           stack |-> Append(st.stack, np),
                           fgCalls |-> st.fgCalls])

\* the loop `for (const [nx, ny] of nbs)`; st = [comp, stack, fgCalls]
RECURSIVE VisitNbs(_, _, _, _, _, _)
VisitNbs(data, w, h, currentId, nbs, st) ==
    IF nbs = <<>> THEN st
    ELSE
        LET nx == Head(nbs)[1]
            ny == Head(nbs)[2]
            np == idx(nx, ny, w)
            rest == Tail(nbs)
        IN  IF nx < 0 \/ nx >= w \/ ny < 0 \/ ny >= h
            THEN VisitNbs(data, w, h, currentId, rest, st)
            ELSE IF st.comp[np] # 0
            THEN VisitNbs(data, w, h, currentId, rest, st)
            ELSE IF ~isForeground(data[np][1], data[np][2], data[np][3])
            THEN VisitNbs(data, w, h, currentId, rest,
                          [st EXCEPT !.comp[np] = 0,
                                     !.fgCalls = Append(@, <<"fill", np>>)])
            ELSE VisitNbs(data, w, h, currentId, rest,
                          [comp |-> [st.comp EXCEPT ![np] = currentId],
                           stack |-> Append(st.stack, np),
                           fgCalls |-> Append(st.fgCalls, <<"fill", np>>)])

\* the loop `while (stack.length)`
RECURSIVE FloodFill(_, _, _, _, _)
FloodFill(data, w, h, currentId, st) ==
    IF st.stack = <<>> THEN st
    ELSE
        LET q == st.stack[Len(st.stack)]
            qx == q % w
            qy == q \div w
            popped == [st EXCEPT !.stack = SubSeq(st.stack, 1, Len(st.stack) - 1)]
        IN  FloodFill(data, w, h, currentId,
                      VisitNbs(data, w, h, currentId, nbsOf(qx, qy), popped))

\* the outer loops `for y ... for x ...`, from (x, y) on;
\* sc = [comp, currentId, fgCalls]
RECURSIVE Scan(_, _, _, _, _, _)
Scan(data, w, h, x, y, sc) ==
    IF y >= h THEN sc
    ELSE IF x >= w THEN Scan(data, w, h, 0, y + 1, sc)
    ELSE
        LET p == idx(x, y, w)
        IN  IF sc.comp[p] # 0
            THEN Scan(data, w, h, x + 1, y, sc)
            ELSE IF ~isForeground(data[p][1], data[p][2], data[p][3])
            THEN Scan(data, w, h, x + 1, y,
                      [sc EXCEPT !.comp[p] = 0,
                                 !.fgCalls = Append(@, <<"scan", p>>)])
            ELSE
                LET id == sc.currentId + 1
                    filled == FloodFill(data, w, h, id,
                                  [comp |-> [sc.comp EXCEPT ![p] = id],
                                   stack |-> <<p>>,
                                   fgCalls |-> Append(sc.fgCalls, <<"scan", p>>)])
                IN  Scan(data, w, h, x + 1, y,
                         [comp |-> filled.comp, currentId |-> id,
                          fgCalls |-> filled.fgCalls])

\* faulty variant: currentId starts at 1, so the first id handed out is 2
buildComponentMapFromOne(data, w, h) ==
    Scan(data, w, h, 0, 0,
         [comp |-> [p \in Pixels(w, h) |-> 0], currentId |-> 1,
          fgCalls |-> <<>>])

\* the result: [comp |-> compIdAt, currentId |-> compCount], with the
\* classifier calls made on the way
buildComponentMap(data, w, h) ==
    Scan(data, w, h, 0, 0,
         [comp |-> [p \in Pixels(w, h) |-> 0], currentId |-> 0,
          fgCalls |-> <<>>])

(***************************************************************************)
(* buildItemMappings                                                       *)
(***************************************************************************)
\* the sample points of the catalog are written with three decimals
\* (0.198, 0.546, ...): a coordinate is kept in thousandths
NormScale == 1000

\* Math.floor(n * size) for n = nk / 1000
floorNorm(nk, size) == (nk * size) \div NormScale

\* compIdAt[i] || 0: an index outside the array reads undefined
labelAtIndex(comp, i) == IF i \in DOMAIN comp THEN comp[i] ELSE 0

\* Map.set
MapSet(m, k, v) == [x \in (DOMAIN m) \cup {k} |-> IF x = k THEN v ELSE m[x]]

\* faulty variant: the sampled id is added without the test `if (id)`
RECURSIVE samplePtsKeepZero(_, _, _, _, _)
samplePtsKeepZero(pts, comp, w, h, set) ==
    IF pts = <<>> THEN set
    ELSE
        LET px == floorNorm(Head(pts)[1], w)
            py == floorNorm(Head(pts)[2], h)
            id == labelAtIndex(comp, py * w + px)
        IN  samplePtsKeepZero(Tail(pts), comp, w, h, set \cup {id})

\* the loop `for (const [nx, ny] of it.pts)`: the Set of sampled ids
RECURSIVE samplePts(_, _, _, _, _)
samplePts(pts, comp, w, h, set) ==
    IF pts = <<>> THEN set
    ELSE
        LET px == floorNorm(Head(pts)[1], w)
            py == floorNorm(Head(pts)[2], h)
            id == labelAtIndex(comp, py * w + px)
        IN  samplePts(Tail(pts), comp, w, h,
                      IF id # 0 THEN set \cup {id} ELSE set)

\* faulty variant: an id that already has a key keeps it: the first item wins
setAllKeepFirst(c2k, set, key) ==
    [x \in (DOMAIN c2k) \cup set |-> IF x \in DOMAIN c2k THEN c2k[x] ELSE key]

\* `for (const id of set) compToItemKey.set(id, it.key)`
setAll(c2k, set, key) ==
    [x \in (DOMAIN c2k) \cup set |-> IF x \in set THEN key ELSE c2k[x]]

\* faulty variant: itemKeyToComps receives a Set that nothing was added to
RECURSIVE mapItemsEmptySets(_, _, _, _, _)
mapItemsEmptySets(items, comp, w, h, maps) ==
    IF items = <<>> THEN maps
    ELSE
        LET it == Head(items)
            set == samplePts(it.pts, comp, w, h, {})
        IN  mapItemsEmptySets(Tail(items), comp, w, h,
                [info  |-> MapSet(maps.info, it.key,
                                  [title |-> it.title, message |-> it.message]),
                 comps |-> MapSet(maps.comps, it.key, {}),
                 c2k   |-> setAll(maps.c2k, set, it.key)])

\* the loop `for (const it of ITEMS)`; maps = [c2k, info, comps]
RECURSIVE mapItems(_, _, _, _, _)
mapItems(items, comp, w, h, maps) ==
    IF items = <<>> THEN maps
    ELSE
        LET it == Head(items)
            set == samplePts(it.pts, comp, w, h, {})
        IN  mapItems(Tail(items), comp, w, h,
                [info  |-> MapSet(maps.info, it.key,
                                  [title |-> it.title, message |-> it.message]),
                 comps |-> MapSet(maps.comps, it.key, set),
                 c2k   |-> setAll(maps.c2k, set, it.key)])

\* the three Maps after clear() and the loop over ITEMS
buildItemMappings(items, comp, w, h) ==
    mapItems(items, comp, w, h,
             [c2k |-> EmptyMap, info |-> EmptyMap, comps |-> EmptyMap])

(***************************************************************************)
(* componentAtClientXY                                                     *)
(***************************************************************************)
\* JavaScript numbers are IEEE-754 doubles: 52 explicit mantissa bits
MantissaBits == 52

RECURSIVE gcd(_, _)
gcd(a, b) == IF b = 0 THEN a ELSE gcd(b, a % b)

RECURSIVE pow2(_)
pow2(n) == IF n = 0 THEN 1 ELSE 2 * pow2(n - 1)

\* 2^s modulo b, by squaring
RECURSIVE pow2Mod(_, _)
pow2Mod(s, b) ==
    IF s = 0 THEN 1 % b
    ELSE LET r == pow2Mod(s \div 2, b)
         IN  (r * r * (IF s % 2 = 1 THEN 2 ELSE 1)) % b

\* floor(log2(k)) for an integer k >= 1
RECURSIVE floorLog2(_)
floorLog2(k) == IF k < 2 THEN 0 ELSE 1 + floorLog2(k \div 2)

\* the least j with a * 2^j >= b
RECURSIVE shiftsToReach(_, _)
shiftsToReach(a, b) == IF a >= b THEN 0 ELSE 1 + shiftsToReach(2 * a, b)

\* floor(log2(a / b)) for integers a, b >= 1
ratioLog2(a, b) ==
    IF a >= b THEN floorLog2(a \div b) ELSE 0 - shiftsToReach(a, b)

\* The double a / b (a, b coprime) is the fraction rounded to 53 significant
\* bits: with e = floor(log2(a / b)) and s = 52 - e it is M / 2^s for the
\* integer M nearest to a * 2^s / b.  The result is M * b - a * 2^s, the
\* error of the double in units of 1 / (b * 2^s): negative when the quotient
\* was rounded down, positive when up, 0 when it is exact.  (No tie occurs
\* for coprime a, b.)
quotientError(a, b) ==
    LET s == MantissaBits - ratioLog2(a, b)
        rem == (a * pow2Mod(s, b)) % b
    IN  IF rem = 0 THEN 0
        ELSE IF 2 * rem < b THEN 0 - rem
        ELSE b - rem

abs(n) == IF n < 0 THEN 0 - n ELSE n

\* Math.floor(d * (size / extent)) in double arithmetic, for integers d,
\* size >= 1, extent >= 1 far below 2^26.  When d * size / extent is not an
\* integer the rounding errors (relative 2^-52) cannot carry the product
\* across an integer and the floor is the exact one.  When it is an integer
\* k, the product of d and the rounded quotient misses k by
\* d * quotientError / (b * 2^s); it is rounded to the double below k, and
\* the floor is k - 1, exactly when that miss is negative and larger than
\* half the gap between k and the next double below it.
floorOfProduct(d, size, extent) ==
    LET k == (d * size) \div extent
        g == gcd(size, extent)
        a == size \div g
        b == extent \div g
        err == quotientError(a, b)
        m == floorLog2(abs(k))
        \* the gap below a positive power of two is half the gap above it
        half == IF k > 0 /\ abs(k) = pow2(m) THEN 2 ELSE 1
    IN  IF (d * size) % extent # 0 \/ d = 0 THEN k
        ELSE IF ~((d > 0 /\ err < 0) \/ (d < 0 /\ err > 0)) THEN k
        ELSE IF 2 * half * abs(d) * abs(err) > b * pow2(m - ratioLog2(a, b))
        THEN k - 1
        ELSE k

\* Math.floor((c - origin) * (size / extent))
floorScale(c, origin, size, extent) == floorOfProduct(c - origin, size, extent)

componentAtClientXY(cx, cy, r, comp, w, h) ==
    LET x == floorScale(cx, r.left, w, r.width)
        y == floorScale(cy, r.top, h, r.height)
    IN  IF x < 0 \/ x >= w \/ y < 0 \/ y >= h
        THEN 0
        ELSE labelAtIndex(comp, y * w + x)

\* compToItemKey.get(comp): undefined for a missing key
MapGet(m, k) == IF k \in DOMAIN m THEN m[k] ELSE Null

(***************************************************************************)
(* redraw: the content of the canvas after the call                        *)
(***************************************************************************)
\* faulty variant: the whole colour pixel is copied, its alpha included
redrawCopyAlpha(grey, color, comp, w, h, hover, k2comps) ==
    IF hover = Null THEN grey
    ELSE
        LET comps == IF hover \in DOMAIN k2comps THEN k2comps[hover] ELSE {}
        IN  IF comps = {} THEN grey
            ELSE [p \in Pixels(w, h) |->
                    IF comp[p] \in comps THEN color[p] ELSE grey[p]]

redraw(grey, color, comp, w, h, hover, k2comps) ==
    IF hover = Null THEN grey
    ELSE
        LET comps == IF hover \in DOMAIN k2comps THEN k2comps[hover] ELSE {}
        IN  IF comps = {} THEN grey
            ELSE [p \in Pixels(w, h) |->
                    IF comp[p] \in comps
                    THEN <<color[p][1], color[p][2], color[p][3], 255>>
                    ELSE grey[p]]

(***************************************************************************)
(* openModal / closeModal: [hidden, title, body] of the modal afterwards   *)
(***************************************************************************)
openModal(itemKey, info, hidden, title, body) ==
    IF itemKey \notin DOMAIN info
    THEN [hidden |-> hidden, title |-> title, body |-> body]
    ELSE [hidden |-> FALSE,
          title |-> info[itemKey].title,
          body |-> info[itemKey].message]

closeModal(hidden, title, body) ==
    [hidden |-> TRUE, title |-> title, body |-> body]

(***************************************************************************)
(* The inputs of the model: catalogs, rectangles, pointer positions.       *)
(***************************************************************************)
\* sample points (thousandths): the first pixel, the last pixel, x = 1, y = 1
Anchors == {<<0, 0>>, <<999, 999>>, <<1000, 0>>, <<0, 1000>>}

Item(key, title, message, pts) ==
    [key |-> key, title |-> title, message |-> message, pts |-> pts]

\* an item of two sample points, the first on the first pixel, followed by
\* an item of one
Catalogs ==
    {<<Item("skis", "Skis", "Skis - 2 pairs", <<<<0, 0>>, b>>),
       Item("poles", "Ski Poles", "Poles - powder baskets", <<c>>)>> :
        b \in Anchors, c \in Anchors}

DefaultCatalog ==
    <<Item("skis", "Skis", "Skis - 2 pairs", <<<<0, 0>>, <<999, 999>>>>),
      Item("poles", "Ski Poles", "Poles - powder baskets", <<<<999, 999>>>>)>>

\* the canvas laid out at twice its pixel size, one unit from the origin
SceneRect(w, h) == [left |-> 1, top |-> 1, width |-> 2 * w, height |-> 2 * h]

NoRect == [left |-> 0, top |-> 0, width |-> 0, height |-> 0]

\* pointer positions: one inside every pixel's cell, and one outside the
\* rectangle (before its left edge)
Pointers ==
    {<<rect.left + ((p % W) * rect.width) \div W,
       rect.top + ((p \div W) * rect.height) \div H>> : p \in Pixels(W, H)}
        \cup {<<rect.left - 1, rect.top>>}

\* the image sizes of the interactive specification
SceneSizes ==
    {s \in (1 .. MaxScenePixels) \X (1 .. MaxScenePixels) :
        s[1] * s[2] <= MaxScenePixels}

\* an image that is not decoded, or that nothing refers to any more
NoImage == <<0, 0>>

NoEvent == [type |-> "none", cx |-> 0, cy |-> 0, from |-> Null]
Event(type, cx, cy) ==
    [type |-> type, cx |-> cx, cy |-> cy, from |-> hoverItemKey]

(***************************************************************************)
(* init()                                                                  *)
(***************************************************************************)
Init ==
    /\ pc = "mustFetchGrey"
    /\ greyLoad = "idle"
    /\ colorLoad = "idle"
    /\ alerts = 0
    /\ ITEMS \in Catalogs
    /\ W = 0
    /\ H = 0
    /\ greyData = EmptyMap
    /\ colorData = EmptyMap
    /\ compIdAt = EmptyMap
    /\ compCount = 0
    /\ compToItemKey = EmptyMap
    /\ itemKeyToInfo = EmptyMap
    /\ itemKeyToComps = EmptyMap
    /\ hoverItemKey = Null
    /\ cursor = ""
    /\ canvasData = EmptyMap
    /\ modalHidden = TRUE
    /\ modalTitle = ""
    /\ modalBody = ""
    /\ rect = NoRect
    /\ evt = NoEvent
    /\ greyImg = NoImage
    /\ colorImg = NoImage
    /\ fgCalls = <<>>
    /\ ret = 0

pageVars == <<ITEMS, W, H, greyData, colorData, compIdAt, compCount,
              compToItemKey, itemKeyToInfo, itemKeyToComps, hoverItemKey,
              cursor, canvasData, modalHidden, modalTitle, modalBody, rect, evt,
              fgCalls, ret>>

\* the catch block of init(): console.error and one alert
Catch ==
    /\ pc' = "failed"
    /\ alerts' = alerts + 1

\* await mustFetch(GREY_SRC) returns true
MustFetchGreyOk ==
    /\ pc = "mustFetchGrey"
    /\ pc' = "mustFetchColor"
    /\ UNCHANGED <<greyLoad, colorLoad, greyImg, colorImg, alerts, pageVars>>

\* await mustFetch(GREY_SRC) throws (fetch rejects or !res.ok)
MustFetchGreyFail ==
    /\ pc = "mustFetchGrey"
    /\ Catch
    /\ UNCHANGED <<greyLoad, colorLoad, greyImg, colorImg, pageVars>>

\* await mustFetch(COLOR_SRC) returns true; both loadImage calls start
MustFetchColorOk ==
    /\ pc = "mustFetchColor"
    /\ pc' = "loadImage"
    /\ greyLoad' = "pending"
    /\ colorLoad' = "pending"
    /\ UNCHANGED <<greyImg, colorImg, alerts, pageVars>>

MustFetchColorFail ==
    /\ pc = "mustFetchColor"
    /\ Catch
    /\ UNCHANGED <<greyLoad, colorLoad, greyImg, colorImg, pageVars>>

\* img.onload / img.onerror of the two images
GreyOnload ==
    /\ greyLoad = "pending"
    /\ greyLoad' = "loaded"
    /\ greyImg' \in SceneSizes
    /\ UNCHANGED <<pc, colorLoad, colorImg, alerts, pageVars>>

GreyOnerror ==
    /\ greyLoad = "pending"
    /\ greyLoad' = "error"
    /\ UNCHANGED <<pc, colorLoad, greyImg, colorImg, alerts, pageVars>>

ColorOnload ==
    /\ colorLoad = "pending"
    /\ colorLoad' = "loaded"
    /\ colorImg' \in SceneSizes
    /\ UNCHANGED <<pc, greyLoad, greyImg, alerts, pageVars>>

ColorOnerror ==
    /\ colorLoad = "pending"
    /\ colorLoad' = "error"
    /\ UNCHANGED <<pc, greyLoad, greyImg, colorImg, alerts, pageVars>>

\* Promise.all rejects with the first rejection
LoadImageFail ==
    /\ pc = "loadImage"
    /\ greyLoad = "error" \/ colorLoad = "error"
    /\ Catch
    /\ UNCHANGED <<greyLoad, colorLoad, greyImg, colorImg, pageVars>>

\* Promise.all resolves: the rest of the try block runs to its end.  W and H
\* are the natural size of the grey image; drawImageToData draws each image
\* scaled to W x H whatever its own size, and nothing compares the two sizes.
\* The two image objects are locals of the try block: nothing refers to them
\* once it has ended.
InitBody ==
    /\ pc = "loadImage"
    /\ greyLoad = "loaded"
    /\ colorLoad = "loaded"
    /\ \E grey \in GreyBuffers(greyImg[1], greyImg[2]) :
            LET w == greyImg[1]
                h == greyImg[2]
                built == buildComponentMap(grey, w, h)
                maps == buildItemMappings(ITEMS, built.comp, w, h)
                color == ColorBuffer(w, h)
            IN  /\ W' = w
                /\ H' = h
                /\ greyData' = grey
                /\ colorData' = color
                /\ compIdAt' = built.comp
                /\ compCount' = built.currentId
                /\ compToItemKey' = maps.c2k
                /\ itemKeyToInfo' = maps.info
                /\ itemKeyToComps' = maps.comps
                /\ canvasData' = redraw(grey, color, built.comp, w, h,
                                        hoverItemKey, maps.comps)
                /\ fgCalls' = built.fgCalls
                /\ rect' = SceneRect(w, h)
    /\ greyImg' = NoImage
    /\ colorImg' = NoImage
    /\ pc' = "ready"
    /\ UNCHANGED <<greyLoad, colorLoad, alerts, ITEMS, hoverItemKey, cursor,
                   modalHidden, modalTitle, modalBody, evt, ret>>

(***************************************************************************)
(* The handlers registered by init()                                       *)
(***************************************************************************)
initVars == <<pc, greyLoad, colorLoad, greyImg, colorImg, alerts>>
builtVars == <<ITEMS, W, H, greyData, colorData, compIdAt, compCount,
               compToItemKey, itemKeyToInfo, itemKeyToComps, rect, fgCalls,
               ret>>
modalVars == <<modalHidden, modalTitle, modalBody>>

\* faulty variant: a move onto no item keeps the previous selection
MouseMoveSticky(cx, cy) ==
    /\ pc = "ready"
    /\ LET comp == componentAtClientXY(cx, cy, rect, compIdAt, W, H)
           itemKey == MapGet(compToItemKey, comp)
       IN  IF itemKey # hoverItemKey /\ itemKey # Null
           THEN /\ hoverItemKey' = itemKey
                /\ cursor' = "pointer"
                /\ canvasData' = redraw(greyData, colorData, compIdAt, W, H,
                                        itemKey, itemKeyToComps)
           ELSE UNCHANGED <<hoverItemKey, cursor, canvasData>>
    /\ evt' = Event("mousemove", cx, cy)
    /\ UNCHANGED <<initVars, builtVars, modalVars>>

\* faulty variant: redraw composes into the grey buffer itself, not a copy
MouseMoveInPlace(cx, cy) ==
    /\ pc = "ready"
    /\ LET comp == componentAtClientXY(cx, cy, rect, compIdAt, W, H)
           itemKey == MapGet(compToItemKey, comp)
           out == redraw(greyData, colorData, compIdAt, W, H,
                         itemKey, itemKeyToComps)
       IN  IF itemKey # hoverItemKey
           THEN /\ hoverItemKey' = itemKey
                /\ cursor' = IF itemKey # Null THEN "pointer" ELSE "default"
                /\ canvasData' = out
                /\ greyData' = out
           ELSE UNCHANGED <<hoverItemKey, cursor, canvasData, greyData>>
    /\ evt' = Event("mousemove", cx, cy)
    /\ UNCHANGED <<initVars, ITEMS, W, H, colorData, compIdAt, compCount,
                   compToItemKey, itemKeyToInfo, itemKeyToComps, rect, fgCalls,
                   ret, modalVars>>

\* canvas "mousemove"
MouseMove(cx, cy) ==
    /\ pc = "ready"
    /\ LET comp == componentAtClientXY(cx, cy, rect, compIdAt, W, H)
           itemKey == MapGet(compToItemKey, comp)
       IN  IF itemKey # hoverItemKey
           THEN /\ hoverItemKey' = itemKey
                /\ cursor' = IF itemKey # Null THEN "pointer" ELSE "default"
                /\ canvasData' = redraw(greyData, colorData, compIdAt, W, H,
                                        itemKey, itemKeyToComps)
           ELSE UNCHANGED <<hoverItemKey, cursor, canvasData>>
    /\ evt' = Event("mousemove", cx, cy)
    /\ UNCHANGED <<initVars, builtVars, modalVars>>

\* faulty variant: the cursor is left as the last mousemove set it
MouseLeaveKeepsCursor ==
    /\ pc = "ready"
    /\ hoverItemKey' = Null
    /\ canvasData' = redraw(greyData, colorData, compIdAt, W, H,
                            Null, itemKeyToComps)
    /\ evt' = Event("mouseleave", 0, 0)
    /\ UNCHANGED <<initVars, builtVars, modalVars, cursor>>

\* faulty variant: the selection is cleared without a redraw
MouseLeaveNoRedraw ==
    /\ pc = "ready"
    /\ hoverItemKey' = Null
    /\ cursor' = "default"
    /\ evt' = Event("mouseleave", 0, 0)
    /\ UNCHANGED <<initVars, builtVars, modalVars, canvasData>>

\* canvas "mouseleave"
MouseLeave ==
    /\ pc = "ready"
    /\ hoverItemKey' = Null
    /\ cursor' = "default"
    /\ canvasData' = redraw(greyData, colorData, compIdAt, W, H,
                            Null, itemKeyToComps)
    /\ evt' = Event("mouseleave", 0, 0)
    /\ UNCHANGED <<initVars, builtVars, modalVars>>

\* faulty variant: the click opens the modal of the hovered item
ClickOpensHovered(cx, cy) ==
    /\ pc = "ready"
    /\ LET m == IF hoverItemKey # Null
                THEN openModal(hoverItemKey, itemKeyToInfo,
                               modalHidden, modalTitle, modalBody)
                ELSE [hidden |-> modalHidden, title |-> modalTitle,
                      body |-> modalBody]
       IN  /\ modalHidden' = m.hidden
           /\ modalTitle' = m.title
           /\ modalBody' = m.body
    /\ evt' = Event("click", cx, cy)
    /\ UNCHANGED <<initVars, builtVars, hoverItemKey, cursor, canvasData>>

\* faulty variant: a click on no item closes the modal
ClickElseCloses(cx, cy) ==
    /\ pc = "ready"
    /\ LET comp == componentAtClientXY(cx, cy, rect, compIdAt, W, H)
           itemKey == MapGet(compToItemKey, comp)
           m == IF itemKey # Null
                THEN openModal(itemKey, itemKeyToInfo,
                               modalHidden, modalTitle, modalBody)
                ELSE closeModal(modalHidden, modalTitle, modalBody)
       IN  /\ modalHidden' = m.hidden
           /\ modalTitle' = m.title
           /\ modalBody' = m.body
    /\ evt' = Event("click", cx, cy)
    /\ UNCHANGED <<initVars, builtVars, hoverItemKey, cursor, canvasData>>

\* canvas "click"
Click(cx, cy) ==
    /\ pc = "ready"
    /\ LET comp == componentAtClientXY(cx, cy, rect, compIdAt, W, H)
           itemKey == MapGet(compToItemKey, comp)
           m == IF itemKey # Null
                THEN openModal(itemKey, itemKeyToInfo,
                               modalHidden, modalTitle, modalBody)
                ELSE [hidden |-> modalHidden, title |-> modalTitle,
                      body |-> modalBody]
       IN  /\ modalHidden' = m.hidden
           /\ modalTitle' = m.title
           /\ modalBody' = m.body
    /\ evt' = Event("click", cx, cy)
    /\ UNCHANGED <<initVars, builtVars, hoverItemKey, cursor, canvasData>>

\* closeBtn "click", modal "click" on the backdrop, window "keydown" Escape
CloseModal(how) ==
    /\ pc = "ready"
    /\ LET m == closeModal(modalHidden, modalTitle, modalBody)
       IN  /\ modalHidden' = m.hidden
           /\ modalTitle' = m.title
           /\ modalBody' = m.body
    /\ how \in {"closeBtn", "backdrop", "escape"}
    /\ evt' = Event("close", 0, 0)
    /\ UNCHANGED <<initVars, builtVars, hoverItemKey, cursor, canvasData>>

CloseBtnClick == CloseModal("closeBtn")
BackdropClick == CloseModal("backdrop")
EscapeKey == CloseModal("escape")

Next ==
    \/ MustFetchGreyOk
    \/ MustFetchGreyFail
    \/ MustFetchColorOk
    \/ MustFetchColorFail
    \/ GreyOnload
    \/ GreyOnerror
    \/ ColorOnload
    \/ ColorOnerror
    \/ LoadImageFail
    \/ InitBody
    \/ \E c \in Pointers : MouseMove(c[1], c[2])
    \/ MouseLeave
    \/ \E c \in Pointers : Click(c[1], c[2])
    \/ CloseBtnClick
    \/ BackdropClick
    \/ EscapeKey

Spec == Init /\ [][Next]_vars

(***************************************************************************)
(* buildComponentMap on its own, over every buffer up to MaxW x MaxH       *)
(***************************************************************************)
InitBuild ==
    /\ pc = "input"
    /\ greyLoad = "idle"
    /\ colorLoad = "idle"
    /\ alerts = 0
    /\ ITEMS = DefaultCatalog
    /\ W \in 1 .. MaxW
    /\ H \in 1 .. MaxH
    /\ greyData \in GreyBuffers(W, H)
    /\ colorData = EmptyMap
    /\ compIdAt = EmptyMap
    /\ compCount = 0
    /\ compToItemKey = EmptyMap
    /\ itemKeyToInfo = EmptyMap
    /\ itemKeyToComps = EmptyMap
    /\ hoverItemKey = Null
    /\ cursor = ""
    /\ canvasData = EmptyMap
    /\ modalHidden = TRUE
    /\ modalTitle = ""
    /\ modalBody = ""
    /\ rect = NoRect
    /\ evt = NoEvent
    /\ greyImg = NoImage
    /\ colorImg = NoImage
    /\ fgCalls = <<>>
    /\ ret = 0

Build ==
    /\ pc = "input"
    /\ LET built == buildComponentMap(greyData, W, H)
       IN  /\ compIdAt' = built.comp
           /\ compCount' = built.currentId
           /\ fgCalls' = built.fgCalls
    /\ pc' = "built"
    /\ UNCHANGED <<greyLoad, colorLoad, greyImg, colorImg, ret, alerts, ITEMS, W, H, greyData,
                   colorData, compToItemKey, itemKeyToInfo, itemKeyToComps,
                   hoverItemKey, cursor, canvasData, modalHidden, modalTitle,
                   modalBody, rect, evt>>

NextBuild == Build

SpecBuild == InitBuild /\ [][NextBuild]_vars

(***************************************************************************)
(* componentAtClientXY on its own: a built label array under a canvas that *)
(* the page lays out, and lays out again between two calls                 *)
(***************************************************************************)
\* layouts of the canvas: twice its pixel size, and a square of 49 CSS pixels
\* at the origin of the viewport
HitRects(w, h) ==
    {SceneRect(w, h), [left |-> 0, top |-> 0, width |-> 49, height |-> 49]}

\* pointer coordinates along one axis: on both sides of the two edges of the
\* rectangle, and the first coordinate of every pixel's cell
AxisPoints(origin, extent, size) ==
    {origin - 1, origin, origin + extent - 1, origin + extent,
     origin + extent + 1}
        \cup {origin + (i * extent + size - 1) \div size : i \in 0 .. (size - 1)}

HitPointers ==
    AxisPoints(rect.left, rect.width, W) \X AxisPoints(rect.top, rect.height, H)

InitHit ==
    /\ pc = "laidOut"
    /\ greyLoad = "idle"
    /\ colorLoad = "idle"
    /\ alerts = 0
    /\ ITEMS = DefaultCatalog
    /\ W \in 1 .. MaxScenePixels
    /\ H \in 1 .. MaxScenePixels
    /\ W * H <= MaxScenePixels
    /\ greyData \in GreyBuffers(W, H)
    /\ colorData = EmptyMap
    /\ compIdAt = buildComponentMap(greyData, W, H).comp
    /\ compCount = buildComponentMap(greyData, W, H).currentId
    /\ compToItemKey = EmptyMap
    /\ itemKeyToInfo = EmptyMap
    /\ itemKeyToComps = EmptyMap
    /\ hoverItemKey = Null
    /\ cursor = ""
    /\ canvasData = EmptyMap
    /\ modalHidden = TRUE
    /\ modalTitle = ""
    /\ modalBody = ""
    /\ rect \in HitRects(W, H)
    /\ evt = NoEvent
    /\ greyImg = NoImage
    /\ colorImg = NoImage
    /\ fgCalls = buildComponentMap(greyData, W, H).fgCalls
    /\ ret = 0

hitFrame == <<pc, greyLoad, colorLoad, greyImg, colorImg, alerts, ITEMS, W, H,
              greyData, colorData, compIdAt, compCount, compToItemKey,
              itemKeyToInfo, itemKeyToComps, hoverItemKey, cursor, canvasData,
              modalHidden, modalTitle, modalBody, fgCalls>>

\* one call componentAtClientXY(cx, cy)
HitTest(cx, cy) ==
    /\ pc = "laidOut"
    /\ ret' = componentAtClientXY(cx, cy, rect, compIdAt, W, H)
    /\ evt' = Event("hit", cx, cy)
    /\ UNCHANGED <<hitFrame, rect>>

\* the page lays the canvas out again: the next getBoundingClientRect()
\* returns another rectangle
Relayout ==
    /\ pc = "laidOut"
    /\ rect' \in HitRects(W, H) \ {rect}
    /\ evt' = Event("layout", 0, 0)
    /\ UNCHANGED <<hitFrame, ret>>

NextHit ==
    \/ \E c \in HitPointers : HitTest(c[1], c[2])
    \/ Relayout

SpecHit == InitHit /\ [][NextHit]_vars

(***************************************************************************)
(* isForeground on its own: one pixel, its channels drawn from the values  *)
(* around the threshold and around a sum of three times the threshold      *)
(***************************************************************************)
Channels == {0, 224, 225, 244, 245, 246, 255}

InitFg ==
    /\ pc = "pixel"
    /\ greyLoad = "idle"
    /\ colorLoad = "idle"
    /\ alerts = 0
    /\ ITEMS = DefaultCatalog
    /\ W = 1
    /\ H = 1
    /\ greyData \in {[p \in Pixels(1, 1) |-> <<r, g, b, 255>>] :
                        r \in Channels, g \in Channels, b \in Channels}
    /\ colorData = EmptyMap
    /\ compIdAt = EmptyMap
    /\ compCount = 0
    /\ compToItemKey = EmptyMap
    /\ itemKeyToInfo = EmptyMap
    /\ itemKeyToComps = EmptyMap
    /\ hoverItemKey = Null
    /\ cursor = ""
    /\ canvasData = EmptyMap
    /\ modalHidden = TRUE
    /\ modalTitle = ""
    /\ modalBody = ""
    /\ rect = NoRect
    /\ evt = NoEvent
    /\ greyImg = NoImage
    /\ colorImg = NoImage
    /\ fgCalls = <<>>
    /\ ret = 0

\* one call isForeground(r, g, b) on the channels of the pixel
Classify ==
    /\ pc = "pixel"
    /\ ret' = isForeground(greyData[0][1], greyData[0][2], greyData[0][3])
    /\ pc' = "classified"
    /\ UNCHANGED <<greyLoad, colorLoad, greyImg, colorImg, alerts, ITEMS, W, H,
                   greyData, colorData, compIdAt, compCount, compToItemKey,
                   itemKeyToInfo, itemKeyToComps, hoverItemKey, cursor,
                   canvasData, modalHidden, modalTitle, modalBody, rect, evt,
                   fgCalls>>

NextFg == Classify

SpecFg == InitFg /\ [][NextFg]_vars

(***************************************************************************)
(* Properties of buildComponentMap (SpecBuild)                             *)
(***************************************************************************)
Built == pc = "built"

ForegroundAt(p) == isForeground(greyData[p][1], greyData[p][2], greyData[p][3])

\* p and q are one step up, down, left or right of each other
Adjacent4(p, q) ==
    LET px == p % W
        py == p \div W
        qx == q % W
        qy == q \div W
    IN  \/ py = qy /\ (px = qx + 1 \/ qx = px + 1)
        \/ px = qx /\ (py = qy + 1 \/ qy = py + 1)

\* p and q touch at a corner only
Diagonal(p, q) ==
    LET px == p % W
        py == p \div W
        qx == q % W
        qy == q \div W
    IN  (px = qx + 1 \/ qx = px + 1) /\ (py = qy + 1 \/ qy = py + 1)

\* the positions reachable from `seen` by 4-steps through positions labelled L
RECURSIVE SameLabelReach(_, _)
SameLabelReach(seen, L) ==
    LET more == {q \in Pixels(W, H) \ seen :
                    compIdAt[q] = L /\ \E p \in seen : Adjacent4(p, q)}
    IN  IF more = {} THEN seen ELSE SameLabelReach(seen \cup more, L)

Labels == {compIdAt[p] : p \in Pixels(W, H)} \ {0}

PixelsOf(L) == {p \in Pixels(W, H) : compIdAt[p] = L}

\* the first pixel of component L in the row-major scan
FirstPixel(L) == CHOOSE p \in PixelsOf(L) : \A q \in PixelsOf(L) : p <= q

\* C1: once buildComponentMap has run, a pixel has label 0 exactly when
\* isForeground rejects its RGB.
C1_LabelZeroIffBackground ==
    Built => \A p \in Pixels(W, H) : (compIdAt[p] = 0) <=> ~ForegroundAt(p)

C1_Witness ==
    /\ Built
    /\ W * H >= 4
    /\ \E p, q \in Pixels(W, H) :
          /\ compIdAt[p] # 0 /\ ForegroundAt(p)
          /\ compIdAt[q] = 0 /\ ~ForegroundAt(q)
          /\ Adjacent4(p, q)

\* C2: the non-zero labels are the maximal 4-connected foreground
\* components: positions with the same label are joined by a 4-path through
\* that label, 4-adjacent foreground pixels share their label, and pixels
\* that only touch at a corner are not merged by that alone.
C2_LabelsAreComponents ==
    Built =>
        /\ \A p \in Pixels(W, H) :
              compIdAt[p] # 0 =>
                  PixelsOf(compIdAt[p]) \subseteq SameLabelReach({p}, compIdAt[p])
        /\ \A p, q \in Pixels(W, H) :
              (Adjacent4(p, q) /\ ForegroundAt(p) /\ ForegroundAt(q))
                  => compIdAt[p] = compIdAt[q]

C2_Witness ==
    /\ Built
    /\ \E p, q \in Pixels(W, H) :
          /\ Diagonal(p, q)
          /\ compIdAt[p] # 0 /\ compIdAt[q] # 0
          /\ compIdAt[p] # compIdAt[q]
    /\ \E L \in Labels : Cardinality(PixelsOf(L)) >= 3

\* C3: the label ids are 1 .. compCount without gaps, a component whose
\* first pixel comes earlier in the row-major scan has the smaller id, and
\* compCount is the number of distinct non-zero labels.
C3_LabelsInScanOrder ==
    Built =>
        /\ Labels = 1 .. compCount
        /\ Cardinality(Labels) = compCount
        /\ \A L1, L2 \in Labels :
              FirstPixel(L1) < FirstPixel(L2) => L1 < L2

C3_Witness ==
    /\ Built
    /\ compCount >= 3
    /\ \E L \in Labels : Cardinality(PixelsOf(L)) >= 2

(***************************************************************************)
(* Properties of the page once init() has finished (Spec)                  *)
(***************************************************************************)
Ready == pc = "ready"

\* the item key the label-to-item table gives label L, Null when none
ItemOfLabel(L) == IF L \in DOMAIN compToItemKey THEN compToItemKey[L] ELSE Null

\* the pixels whose cell of the displayed rectangle contains (cx, cy)
PixelsUnder(cx, cy) ==
    {p \in Pixels(W, H) :
        LET x == p % W
            y == p \div W
        IN  /\ x * rect.width <= (cx - rect.left) * W
            /\ (cx - rect.left) * W < (x + 1) * rect.width
            /\ y * rect.height <= (cy - rect.top) * H
            /\ (cy - rect.top) * H < (y + 1) * rect.height}

LabelUnder(cx, cy) ==
    IF PixelsUnder(cx, cy) = {} THEN 0
    ELSE compIdAt[CHOOSE p \in PixelsUnder(cx, cy) : TRUE]

KeyUnder(cx, cy) == ItemOfLabel(LabelUnder(cx, cy))

\* the catalog entry of key k
CatalogItem(k) == ITEMS[CHOOSE i \in 1 .. Len(ITEMS) : ITEMS[i].key = k]

LabelSet(k) == IF k \in DOMAIN itemKeyToComps THEN itemKeyToComps[k] ELSE {}

\* the last handler to run called redraw()
RedrawJustRan ==
    /\ Ready
    /\ \/ evt.type = "none"
       \/ evt.type = "mouseleave"
       \/ evt.type = "mousemove" /\ evt.from # hoverItemKey

Recolored(p) ==
    canvasData[p] = <<colorData[p][1], colorData[p][2], colorData[p][3], 255>>

\* C4: after redraw, a pixel whose label is in the label set of the active
\* item shows the colour buffer's RGB with alpha 255, every other pixel shows
\* the grey buffer's pixel; with no active selection the canvas is the grey
\* buffer.
C4_RedrawOutput ==
    RedrawJustRan =>
        /\ \A p \in Pixels(W, H) :
              IF hoverItemKey # Null /\ compIdAt[p] \in LabelSet(hoverItemKey)
              THEN Recolored(p)
              ELSE canvasData[p] = greyData[p]
        /\ hoverItemKey = Null => canvasData = greyData

C4_Witness ==
    /\ RedrawJustRan
    /\ evt.type = "mousemove"
    /\ hoverItemKey # Null
    /\ \E p, q \in Pixels(W, H) :
          /\ compIdAt[p] \in LabelSet(hoverItemKey)
          /\ colorData[p][4] # 255
          /\ Recolored(p)
          /\ compIdAt[q] # 0
          /\ compIdAt[q] \notin LabelSet(hoverItemKey)
          /\ canvasData[q] = greyData[q]

\* C5: a mousemove leaves hoverItemKey equal to the key of the component
\* under the pointer (Null out of bounds, on background or on an unmapped
\* component), in the one step of the handler, so a move from one item to
\* another goes from key to key2 with no state in between; a mouseleave
\* leaves it Null.
C5_HoverFollowsPointer ==
    [][/\ evt'.type = "mousemove" =>
             /\ hoverItemKey' = KeyUnder(evt'.cx, evt'.cy)
             /\ evt'.from = hoverItemKey
       /\ evt'.type = "mouseleave" => hoverItemKey' = Null]_vars

C5_Witness ==
    /\ Ready
    /\ evt.type = "mousemove"
    /\ evt.from = "skis"
    /\ hoverItemKey = "poles"
    /\ KeyUnder(evt.cx, evt.cy) = "poles"

ModalShows(k) ==
    /\ ~modalHidden
    /\ modalTitle = CatalogItem(k).title
    /\ modalBody = CatalogItem(k).message

\* C6 as stated: a click handled while hoverItemKey = key opens the modal
\* with the title and message of that key.
C6_ClickShowsHoveredItem ==
    (Ready /\ evt.type = "click" /\ hoverItemKey # Null)
        => ModalShows(hoverItemKey)

\* C6 amended: a click whose own position lies on a component mapped to a
\* key opens the modal with the title and message of that key, whatever
\* hoverItemKey is.
C6_ClickShowsItemUnderPointer ==
    (Ready /\ evt.type = "click" /\ KeyUnder(evt.cx, evt.cy) # Null)
        => ModalShows(KeyUnder(evt.cx, evt.cy))

C6_Witness ==
    /\ Ready
    /\ evt.type = "click"
    /\ hoverItemKey = "skis"
    /\ KeyUnder(evt.cx, evt.cy) = "poles"
    /\ ModalShows("poles")

\* C7: a click on label 0 (background, out of bounds) or on a component
\* mapped to no item changes neither the modal, nor hoverItemKey, the
\* cursor, the canvas, the label array or the lookup tables.
C7_ClickOnNoItemIsNoOp ==
    [][(evt'.type = "click" /\ KeyUnder(evt'.cx, evt'.cy) = Null) =>
          UNCHANGED <<modalHidden, modalTitle, modalBody, hoverItemKey, cursor,
                      canvasData, compIdAt, compCount, compToItemKey,
                      itemKeyToInfo, itemKeyToComps>>]_vars

C7_Witness ==
    /\ Ready
    /\ evt.type = "click"
    /\ LabelUnder(evt.cx, evt.cy) # 0
    /\ KeyUnder(evt.cx, evt.cy) = Null
    /\ ~modalHidden
    /\ hoverItemKey # Null

\* C8 as stated: while hoverItemKey = k, the canvas differs from the grey
\* buffer only at pixels whose label the label-to-item table gives to k.
C8_OnlyOwnPixelsRecolored ==
    (Ready /\ hoverItemKey # Null) =>
        \A p \in Pixels(W, H) :
            canvasData[p] # greyData[p] => ItemOfLabel(compIdAt[p]) = hoverItemKey

\* the catalog positions of the items whose label set contains L
Claimers(L) == {i \in 1 .. Len(ITEMS) : L \in LabelSet(ITEMS[i].key)}

Last(S) == CHOOSE i \in S : \A j \in S : j <= i

\* C9: a label in the label set of several items is mapped to the last of
\* them in catalog order, a label in the set of one item to that item, and
\* a label in no set is absent from compToItemKey.
C9_LastItemWins ==
    Ready =>
        /\ DOMAIN compToItemKey \subseteq 1 .. compCount
        /\ \A L \in 1 .. compCount :
              IF Claimers(L) = {}
              THEN L \notin DOMAIN compToItemKey
              ELSE /\ L \in DOMAIN compToItemKey
                   /\ compToItemKey[L] = ITEMS[Last(Claimers(L))].key

C9_Witness ==
    /\ Ready
    /\ \E L1, L2 \in 1 .. compCount :
          /\ Claimers(L1) = {1, 2} /\ compToItemKey[L1] = "poles"
          /\ Claimers(L2) = {1} /\ compToItemKey[L2] = "skis"

\* the sample points of an item whose pixel lies inside the image
InRangePts(it) ==
    {i \in 1 .. Len(it.pts) :
        /\ floorNorm(it.pts[i][1], W) \in 0 .. (W - 1)
        /\ floorNorm(it.pts[i][2], H) \in 0 .. (H - 1)}

\* C10 as stated: the label set of an item holds exactly the non-zero
\* labels at its in-range sample pixels; an out-of-range sample point adds
\* nothing.
C10_OutOfRangeAnchorAddsNothing ==
    Ready =>
        \A n \in 1 .. Len(ITEMS) :
            LabelSet(ITEMS[n].key) =
                {compIdAt[floorNorm(ITEMS[n].pts[i][2], H) * W
                          + floorNorm(ITEMS[n].pts[i][1], W)] :
                    i \in InRangePts(ITEMS[n])} \ {0}

(***************************************************************************)
(* Properties of componentAtClientXY (SpecHit)                             *)
(***************************************************************************)
\* the position lies outside the rectangle the canvas has now
OutsideRect(cx, cy) ==
    \/ cx < rect.left
    \/ cx >= rect.left + rect.width
    \/ cy < rect.top
    \/ cy >= rect.top + rect.height

\* the pixel index py * W + px of a position, in exact arithmetic
PixelAt(cx, cy) ==
    (((cy - rect.top) * H) \div rect.height) * W
        + ((cx - rect.left) * W) \div rect.width

\* C11: a call of componentAtClientXY returns 0 for a position outside the
\* rectangle the canvas has at that call (left of left, above top, at or
\* beyond left + width, at or beyond top + height), and for a position
\* inside it returns the label compIdAt[py * W + px] of the pixel under it.
C11_HitTestByRectangle ==
    evt.type = "hit" =>
        ret = IF OutsideRect(evt.cx, evt.cy) THEN 0
              ELSE compIdAt[PixelAt(evt.cx, evt.cy)]

(***************************************************************************)
(* Properties of the item mappings under the handlers (Spec)               *)
(***************************************************************************)
\* the index buildItemMappings reads for sample point i of catalog item n
SampledIndex(n, i) ==
    floorNorm(ITEMS[n].pts[i][2], H) * W + floorNorm(ITEMS[n].pts[i][1], W)

AllOnBackground(n) ==
    \A i \in 1 .. Len(ITEMS[n].pts) :
        /\ i \in InRangePts(ITEMS[n])
        /\ compIdAt[SampledIndex(n, i)] = 0

\* C15: an item whose sample points all lie on background has an empty label
\* set; whatever mousemove, mouseleave and click events have been handled,
\* hoverItemKey is not its key, the compositor recolours no pixel for its
\* key, and the modal does not show its title and message.
C15_BackgroundItemIsInert ==
    Ready =>
        \A n \in 1 .. Len(ITEMS) :
            AllOnBackground(n) =>
                /\ LabelSet(ITEMS[n].key) = {}
                /\ hoverItemKey # ITEMS[n].key
                /\ redraw(greyData, colorData, compIdAt, W, H, ITEMS[n].key,
                          itemKeyToComps) = greyData
                /\ ~ModalShows(ITEMS[n].key)

\* the second item lies on background; the pointer has moved onto the first
\* item, a click there has opened its modal, and the last event is a click
\* on the pixel of the second item's sample point
C15_Witness ==
    /\ Ready
    /\ AllOnBackground(2)
    /\ evt.type = "click"
    /\ SampledIndex(2, 1) \in PixelsUnder(evt.cx, evt.cy)
    /\ hoverItemKey = ITEMS[1].key
    /\ ModalShows(ITEMS[1].key)

(***************************************************************************)
(* Cursor, display and frame properties of the handlers (Spec)             *)
(***************************************************************************)
\* C16 as stated: after a handled mousemove or mouseleave the cursor is
\* "pointer" if hoverItemKey is non-null and "default" otherwise.
C16_CursorPointerOrDefault ==
    (Ready /\ evt.type \in {"mousemove", "mouseleave"}) =>
        cursor = IF hoverItemKey # Null THEN "pointer" ELSE "default"

\* C16 amended: after a handled mousemove or mouseleave the cursor is
\* "pointer" exactly when hoverItemKey is non-null; when it is null the
\* cursor is "default", or still the unset value it had before the first
\* mouseleave or change of selection; a click leaves the cursor as it is.
C16_CursorFollowsSelection ==
    [][/\ evt'.type \in {"mousemove", "mouseleave"} =>
             /\ cursor' = "pointer" <=> hoverItemKey' # Null
             /\ hoverItemKey' = Null =>
                    \/ cursor' = "default"
                    \/ cursor' = "" /\ cursor = "" /\ evt'.type = "mousemove"
                            /\ hoverItemKey = Null
       /\ evt'.type = "click" => cursor' = cursor]_vars

\* the pointer has moved off an item onto background
C16_Witness ==
    /\ Ready
    /\ evt.type = "mousemove"
    /\ evt.from # Null
    /\ hoverItemKey = Null
    /\ cursor = "default"

\* C17: once init() has drawn, and after every handled mousemove, mouseleave
\* or click, the canvas is what the compositor gives for the current
\* hoverItemKey, also when a mousemove found the key unchanged and skipped
\* the redraw.
C17_CanvasIsCompositorOutput ==
    Ready =>
        canvasData = redraw(greyData, colorData, compIdAt, W, H, hoverItemKey,
                            itemKeyToComps)

\* a mousemove within the hovered item: the redraw was skipped and the
\* canvas still shows the highlight
C17_Witness ==
    /\ Ready
    /\ evt.type = "mousemove"
    /\ evt.from = hoverItemKey
    /\ hoverItemKey # Null
    /\ canvasData # greyData

\* C18: a step of a mousemove, mouseleave or click handler (with the redraw
\* and openModal calls it makes) leaves the label array, compCount, the three
\* tables and the two pixel buffers as init() built them, and the rest of
\* the state other than hoverItemKey, the cursor, the canvas and the modal.
C18_HandlersKeepBuiltState ==
    [][evt'.type \in {"mousemove", "mouseleave", "click"} =>
          UNCHANGED <<compIdAt, compCount, compToItemKey, itemKeyToComps,
                      itemKeyToInfo, greyData, colorData, W, H, ITEMS, pc,
                      alerts, greyLoad, colorLoad>>]_vars

\* the handlers have written all they write: a selection, its highlight and
\* an open modal
C18_Witness ==
    /\ Ready
    /\ evt.type = "click"
    /\ hoverItemKey # Null
    /\ cursor = "pointer"
    /\ canvasData # greyData
    /\ ~modalHidden

(***************************************************************************)
(* The classifier calls of buildComponentMap (SpecBuild)                   *)
(***************************************************************************)
\* C19 as stated: a pixel that a flood fill has examined, background pixels
\* included, is marked, so the outer scan does not run the classifier on it
\* afterwards.
C19_ScanSkipsFilledPixels ==
    Built =>
        \A i, j \in 1 .. Len(fgCalls) :
            (i < j /\ fgCalls[i][1] = "fill" /\ fgCalls[j][1] = "scan")
                => fgCalls[i][2] # fgCalls[j][2]

(***************************************************************************)
(* Properties of isForeground (SpecFg)                                     *)
(***************************************************************************)
\* C20: isForeground(r, g, b) is false when the three channels all exceed
\* 245, and otherwise true exactly when r + g + b < 735.
C20_ForegroundIffSumBelow735 ==
    pc = "classified" =>
        LET r == greyData[0][1]
            g == greyData[0][2]
            b == greyData[0][3]
        IN  ret = IF r > 245 /\ g > 245 /\ b > 245
                  THEN FALSE
                  ELSE r + g + b < 735

\* a pixel whose mean is exactly 245 with a channel at or below 245, and so
\* is background by the comparison of the mean
C20_Witness ==
    /\ pc = "classified"
    /\ ~(greyData[0][1] > 245 /\ greyData[0][2] > 245 /\ greyData[0][3] > 245)
    /\ greyData[0][1] + greyData[0][2] + greyData[0][3] = 735
    /\ ret = FALSE

====
